---------------------------- MODULE Spec2Model ----------------------------
(***************************************************************************)
(* A model of route_calculator.py: the OSRM client DistanceRouteCalculator *)
(* (its retrying transport _make_request, get_routes, get_distance_matrix  *)
(* and is_healthy) and the value objects RouteOption and RouteResult.      *)
(*                                                                         *)
(* One calculator serves one blocking call at a time.  A call is a run of  *)
(* HTTP attempts; the attempt that ends the call also runs the rest of the *)
(* calling method, which does no further I/O.                              *)
(*                                                                         *)
(* Python values are modelled as follows.  An optional value (a dict key   *)
(* that may be missing, an Optional field) is a sequence of length 0 or 1. *)
(* An exception is a record of its class, its message (the pieces of the   *)
(* f-string, in order) and the exception it was raised while handling.     *)
(* Metres and seconds are integers, the truck score is in tenths; the      *)
(* computed floats (kilometres, minutes, fuel cost) are rounded binary     *)
(* floats of MantissaBits significant bits.                                *)
(***************************************************************************)
EXTENDS Integers, Sequences, FiniteSets, TLC

\* Largest max_retries a calculator is configured with.
MaxRetries == 3
\* Longest route list the service returns.
MaxRoutes == 2
\* Largest duration_seconds of a directly constructed RouteOption.
MaxDuration == 2000
\* Significant bits of a float (53 in CPython).
MantissaBits == 10

(***************************************************************************)
(* Optional values and dict.get                                            *)
(***************************************************************************)
Absent == <<>>
Some(v) == <<v>>
\* dict.get(key, default)
Get(d, default) == IF d = Absent THEN default ELSE d[1]

(***************************************************************************)
(* The service: what an attempt can meet                                   *)
(***************************************************************************)
\* raised by session.get or raise_for_status, subclasses of RequestException
TransportFailures == {"ConnectionError", "HTTPError"}
\* raised inside the try block, not a RequestException
OtherFailures == {"ValueError"}
\* what session.get, raise_for_status or response.json() can raise
Failures == TransportFailures \cup OtherFailures

DistanceValues == {1000, 2000}
DurationValues == {100, 299, 300}
StatusCodes == {Some("Ok"), Some("InvalidQuery"), Some("NoRoute"), Absent}
Messages == {Some("Query string malformed"), Some("Impossible route"), Absent}

Leg(steps) == [steps |-> steps]

\* entries carrying distance and duration at most
PlainEntries ==
    [distance : {Absent} \cup {Some(d) : d \in DistanceValues},
     duration : {Absent} \cup {Some(d) : d \in DurationValues},
     weight : {Absent}, weight_name : {Absent}, geometry : {Absent},
     legs : {Absent}]

\* entries carrying a weight, a geometry or legs
RichEntries ==
    [distance : {Some(1000)}, duration : {Some(300)},
     weight : {Some(42)}, weight_name : {Some("duration")},
     geometry : {Absent}, legs : {Absent}]
    \cup
    [distance : {Some(1000)}, duration : {Some(300)},
     weight : {Absent}, weight_name : {Absent},
     geometry : {Some("polyline")},
     legs : {Some(<<>>),
             Some(<<Leg(Absent)>>),
             Some(<<Leg(Some(<<"depart">>)), Leg(Some(<<"arrive">>))>>)}]

\* one entry of the response's "routes" list
RouteEntries == PlainEntries \cup RichEntries

RECURSIVE SeqsUpTo(_, _)
SeqsUpTo(S, n) ==
    IF n = 0 THEN {<<>>}
    ELSE LET shorter == SeqsUpTo(S, n - 1)
         IN  shorter \cup {Append(s, x) : s \in {t \in shorter : Len(t) = n - 1}, x \in S}

RouteLists == SeqsUpTo(RouteEntries, MaxRoutes)
ShortRouteLists == SeqsUpTo(RouteEntries, 1)

\* decoded bodies of /route/v1: every route list under "Ok", short ones otherwise
RouteBodies ==
    [code : {Some("Ok")}, message : {Absent},
     routes : {Absent} \cup {Some(l) : l \in RouteLists}]
    \cup
    [code : StatusCodes, message : Messages,
     routes : {Absent} \cup {Some(l) : l \in ShortRouteLists}]

Matrices == {Some(<<<<0, 7>>, <<7, 0>>>>), Absent}
Waypoints == {Some(<<"w0", "w1">>), Absent}
\* decoded bodies of /table/v1
TableBodies ==
    [code : StatusCodes, message : Messages, durations : Matrices,
     distances : Matrices, sources : Waypoints, destinations : Waypoints]

\* (longitude, latitude) in 1e-4 degrees: the points is_healthy routes between
test_origin == <<-740060, 407128>>
test_destination == <<-739352, 407306>>

VARIABLES
    max_retries,  \* self.max_retries
    pc,           \* "idle", or "requesting" inside _make_request's loop
    op,           \* the public method being served, "none" between calls
    args,         \* its arguments
    attempt,      \* the loop variable of _make_request
    attempts,     \* session.get calls made by this call
    sleeps,       \* time.sleep arguments of this call, in order
    last_failure, \* the exception of the latest attempt, "None" if it raised none
    served,       \* the JSON body the service sent on the successful attempt
    response,     \* what _make_request returned to the method
    result,       \* how the call ended: a return value or an exception
    read          \* the derived property the caller read last, and its value

vars == <<max_retries, pc, op, args, attempt, attempts, sleeps, last_failure,
          served, response, result, read>>

NoResult == [kind |-> "none"]
Returned(v) == [kind |-> "return", value |-> v]
Raised(e) == [kind |-> "raise", exc |-> e]
Exc(cls, msg, context) == [cls |-> cls, msg |-> msg, context |-> context]

\* classes that "except Exception" catches
ExceptionClasses ==
    {"Exception", "ValueError", "AttributeError", "IndexError", "TypeError"}

(***************************************************************************)
(* The builtins min, max and sorted with a key                             *)
(***************************************************************************)
RECURSIVE MinScan_KeepsLast(_, _, _)
\* a bug the minimum scan could have: a later equal key replaces the best
MinScan_KeepsLast(keys, best, i) ==
    IF i > Len(keys) THEN best
    ELSE MinScan_KeepsLast(keys, IF keys[i] <= keys[best] THEN i ELSE best, i + 1)

RECURSIVE MinScan(_, _, _)
\* min keeps its current best unless a later key is strictly smaller
MinScan(keys, best, i) ==
    IF i > Len(keys) THEN best
    ELSE MinScan(keys, IF keys[i] < keys[best] THEN i ELSE best, i + 1)

RECURSIVE MaxScan_KeepsLast(_, _, _)
\* a bug the maximum scan could have: a later equal key replaces the best
MaxScan_KeepsLast(keys, best, i) ==
    IF i > Len(keys) THEN best
    ELSE MaxScan_KeepsLast(keys, IF keys[i] >= keys[best] THEN i ELSE best, i + 1)

RECURSIVE MaxScan(_, _, _)
\* max keeps its current best unless a later key is strictly greater
MaxScan(keys, best, i) ==
    IF i > Len(keys) THEN best
    ELSE MaxScan(keys, IF keys[i] > keys[best] THEN i ELSE best, i + 1)

\* a bug the sort could have: x goes before an element of equal key (unstable)
RECURSIVE InsertByDistance_Unstable(_, _)
InsertByDistance_Unstable(sorted, x) ==
    IF sorted = <<>> THEN <<x>>
    ELSE IF x.distance_meters <= Head(sorted).distance_meters THEN <<x>> \o sorted
    ELSE <<Head(sorted)>> \o InsertByDistance_Unstable(Tail(sorted), x)

\* insert x behind every element whose key is not greater: a stable sort's step
RECURSIVE InsertByDistance(_, _)
InsertByDistance(sorted, x) ==
    IF sorted = <<>> THEN <<x>>
    ELSE IF x.distance_meters < Head(sorted).distance_meters THEN <<x>> \o sorted
    ELSE <<Head(sorted)>> \o InsertByDistance(Tail(sorted), x)

RECURSIVE SortByDistanceFrom(_, _, _)
SortByDistanceFrom(routes, sorted, i) ==
    IF i > Len(routes) THEN sorted
    ELSE SortByDistanceFrom(routes, InsertByDistance(sorted, routes[i]), i + 1)

\* sorted(routes, key=lambda r: r.distance_meters)
routes_by_distance(routes) == SortByDistanceFrom(routes, <<>>, 1)

(***************************************************************************)
(* Python floats: binary floating point, rounded to the nearest value with *)
(* ties to even after every operation.  A float is <<m, e>>, the number    *)
(* m * 2^e, with MantissaBits significant bits in m; zero is <<0, 0>>.     *)
(* Only non-negative numbers occur.                                        *)
(***************************************************************************)
RECURSIVE RoundQ(_, _, _)
\* the float nearest to (num / den) * 2^e
RoundQ(num, den, e) ==
    IF num = 0 THEN <<0, 0>>
    ELSE IF num < 2 ^ (MantissaBits - 1) * den THEN RoundQ(2 * num, den, e - 1)
    ELSE IF num >= 2 ^ MantissaBits * den THEN RoundQ(num, 2 * den, e + 1)
    ELSE LET q == num \div den
             r == num % den
             m == IF 2 * r > den \/ (2 * r = den /\ q % 2 = 1) THEN q + 1 ELSE q
         IN  IF m = 2 ^ MantissaBits THEN <<2 ^ (MantissaBits - 1), e + 1>>
             ELSE <<m, e>>

\* the float of a literal num / den, and of an int
Float(num, den) == RoundQ(num, den, 0)

\* x * y
FloatMul(x, y) == RoundQ(x[1] * y[1], 1, x[2] + y[2])

\* x / y, y not zero
FloatDiv(x, y) == RoundQ(x[1], y[1], x[2] - y[2])

\* x < y
FloatLess(x, y) ==
    IF y[1] = 0 THEN FALSE
    ELSE IF x[1] = 0 THEN TRUE
    ELSE x[2] < y[2] \/ (x[2] = y[2] /\ x[1] < y[1])

RECURSIVE MinFloatScan_KeepsLast(_, _, _)
\* a bug the minimum scan could have: a later equal key replaces the best
MinFloatScan_KeepsLast(keys, best, i) ==
    IF i > Len(keys) THEN best
    ELSE MinFloatScan_KeepsLast(
             keys, IF ~FloatLess(keys[best], keys[i]) THEN i ELSE best, i + 1)

RECURSIVE MinFloatScan(_, _, _)
\* min over floats: the best is kept unless a later key is strictly smaller
MinFloatScan(keys, best, i) ==
    IF i > Len(keys) THEN best
    ELSE MinFloatScan(keys, IF FloatLess(keys[i], keys[best]) THEN i ELSE best, i + 1)

RECURSIVE MaxFloatScan(_, _, _)
\* max over floats: the best is kept unless a later key is strictly greater
MaxFloatScan(keys, best, i) ==
    IF i > Len(keys) THEN best
    ELSE MaxFloatScan(keys, IF FloatLess(keys[best], keys[i]) THEN i ELSE best, i + 1)

(***************************************************************************)
(* RouteOption                                                             *)
(***************************************************************************)
\* the float literals of the properties
MetersPerKm == Float(1000, 1)
SecondsPerMinute == Float(60, 1)
MilesPerKm == Float(621371, 1000000)
MilesPerGallon == Float(8, 1)
DollarsPerGallon == Float(7, 2)

\* self.distance_meters / 1000.0
distance_km(route) == FloatDiv(Float(route.distance_meters, 1), MetersPerKm)

\* self.duration_seconds / 60.0
duration_minutes(route) == FloatDiv(Float(route.duration_seconds, 1), SecondsPerMinute)

\* self.distance_km * 0.621371 / 8.0, then gallons_used * 3.50
estimated_fuel_cost(route) ==
    FloatMul(FloatDiv(FloatMul(distance_km(route), MilesPerKm), MilesPerGallon),
             DollarsPerGallon)

\* a bug the score could have: the brackets are closed on the upper side
truck_suitability_score_Inclusive(route) ==
    IF route.duration_seconds <= 300 THEN 9
    ELSE IF route.duration_seconds <= 900 THEN 8
    ELSE IF route.duration_seconds <= 1800 THEN 7
    ELSE 6

\* the score in tenths: 9 is 0.9
truck_suitability_score(route) ==
    IF route.duration_seconds < 300 THEN 9
    ELSE IF route.duration_seconds < 900 THEN 8
    ELSE IF route.duration_seconds < 1800 THEN 7
    ELSE 6

\* route_data.get('legs', [{}])[0] fails on a legs list that is empty
FirstLegMissing(route_data, include_steps) ==
    include_steps /\ route_data.legs = Some(<<>>)

\* a bug RouteOption could have: the steps are those of the last leg
RouteOption_LastLeg(route_data, i, include_steps) ==
    [id |-> i,
     distance_meters |-> Get(route_data.distance, 0),
     duration_seconds |-> Get(route_data.duration, 0),
     weight |-> Get(route_data.weight, Get(route_data.duration, 0)),
     weight_name |-> Get(route_data.weight_name, "routability"),
     geometry |-> route_data.geometry,
     steps |-> IF include_steps
               THEN LET legs == Get(route_data.legs, <<Leg(Absent)>>)
                    IN  Some(Get(legs[Len(legs)].steps, <<>>))
               ELSE Absent]

\* the RouteOption built from the i-th entry; id is the object's identity
RouteOption(route_data, i, include_steps) ==
    [id |-> i,
     distance_meters |-> Get(route_data.distance, 0),
     duration_seconds |-> Get(route_data.duration, 0),
     weight |-> Get(route_data.weight, Get(route_data.duration, 0)),
     weight_name |-> Get(route_data.weight_name, "routability"),
     geometry |-> route_data.geometry,
     steps |-> IF include_steps
               THEN Some(Get(Get(route_data.legs, <<Leg(Absent)>>)[1].steps, <<>>))
               ELSE Absent]

(***************************************************************************)
(* RouteResult                                                             *)
(***************************************************************************)
\* a bug fastest_route could have: a new RouteOption made of the best of each
\* metric instead of the list's own element
fastest_route_BestOfEach(routes) ==
    [routes[1] EXCEPT
        !.id = 0,
        !.duration_seconds =
            routes[MinScan([i \in DOMAIN routes |-> routes[i].duration_seconds], 1, 2)]
                .duration_seconds,
        !.distance_meters =
            routes[MinScan([i \in DOMAIN routes |-> routes[i].distance_meters], 1, 2)]
                .distance_meters]

fastest_route(routes) ==
    routes[MinScan([i \in DOMAIN routes |-> routes[i].duration_seconds], 1, 2)]

shortest_route(routes) ==
    IF Len(routes_by_distance(routes)) > 1
    THEN Some(routes_by_distance(routes)[1])
    ELSE Absent

best_truck_route(self) ==
    self.routes[MaxScan([i \in DOMAIN self.routes |->
                            truck_suitability_score(self.routes[i])], 1, 2)]

\* min(values) and max(values) of a list of floats
FloatMin(values) == values[MinFloatScan(values, 1, 2)]
FloatMax(values) == values[MaxFloatScan(values, 1, 2)]

\* a bug distance_range could have: the pair is (max, min)
distance_range_Swapped(self) ==
    <<FloatMax([i \in DOMAIN self.routes |-> distance_km(self.routes[i])]),
      FloatMin([i \in DOMAIN self.routes |-> distance_km(self.routes[i])])>>

distance_range(self) ==
    <<FloatMin([i \in DOMAIN self.routes |-> distance_km(self.routes[i])]),
      FloatMax([i \in DOMAIN self.routes |-> distance_km(self.routes[i])])>>

duration_range(self) ==
    <<FloatMin([i \in DOMAIN self.routes |-> duration_minutes(self.routes[i])]),
      FloatMax([i \in DOMAIN self.routes |-> duration_minutes(self.routes[i])])>>

total_fuel_cost_range(self) ==
    <<FloatMin([i \in DOMAIN self.routes |-> estimated_fuel_cost(self.routes[i])]),
      FloatMax([i \in DOMAIN self.routes |-> estimated_fuel_cost(self.routes[i])])>>

most_efficient_route(self) ==
    self.routes[MinFloatScan([i \in DOMAIN self.routes |->
                                 estimated_fuel_cost(self.routes[i])], 1, 2)]

(***************************************************************************)
(* DistanceRouteCalculator                                                 *)
(***************************************************************************)
\* a bug the loop could have: the list is kept in the order of the sort
ParseRoutes_Sorted(body, include_steps) ==
    LET entries == Get(body.routes, <<>>)
    IN  routes_by_distance(
            [i \in DOMAIN entries |-> RouteOption(entries[i], i, include_steps)])

\* the loop "for route_data in response.get('routes', [])"
ParseRoutes(body, include_steps) ==
    LET entries == Get(body.routes, <<>>)
    IN  [i \in DOMAIN entries |-> RouteOption(entries[i], i, include_steps)]

\* some entry of the loop raises IndexError
ParseFails(body, include_steps) ==
    \E i \in DOMAIN Get(body.routes, <<>>) :
        FirstLegMissing(Get(body.routes, <<>>)[i], include_steps)

\* a bug StatusOk could have: a response without a code passes
StatusOk_MissingPasses(body) == body.code = Some("Ok") \/ body.code = Absent

\* response.get('code') != 'Ok', negated
StatusOk(body) == body.code = Some("Ok")

\* Exception(f"OSRM routing failed: {response.get('message', 'Unknown error')}")
RoutingFailed(body) ==
    Exc("Exception",
        <<"OSRM routing failed: ", Get(body.message, "Unknown error")>>, "None")

\* a bug NoRoutesFound could have: the empty result is reported as a failure
\* of the service
NoRoutesFound_AsServiceFailure ==
    Exc("Exception", <<"OSRM routing failed: ", "Unknown error">>, "None")

\* Exception("No routes found between the specified points")
NoRoutesFound ==
    Exc("Exception", <<"No routes found between the specified points">>, "None")

\* None.get(...)
NoneHasNoGet ==
    Exc("AttributeError", <<"'NoneType' object has no attribute 'get'">>, "None")

\* a bug the parse loop could have: an entry it cannot read is reported as an
\* empty result
IndexOutOfRange_AsNoRoutes == NoRoutesFound

\* [][0]
IndexOutOfRange == Exc("IndexError", <<"list index out of range">>, "None")

\* get_routes from the return of _make_request on; resp is Absent for None
get_routes_after_request(a, resp) ==
    IF resp = Absent
    THEN Raised(NoneHasNoGet)
    ELSE IF ~StatusOk(resp[1])
    THEN Raised(RoutingFailed(resp[1]))
    ELSE IF ParseFails(resp[1], a.include_steps)
    THEN Raised(IndexOutOfRange)
    ELSE IF ParseRoutes(resp[1], a.include_steps) = <<>>
    THEN Raised(NoRoutesFound)
    ELSE Returned([origin |-> a.origin,
                   destination |-> a.destination,
                   routes |-> ParseRoutes(resp[1], a.include_steps),
                   fastest_route |->
                       fastest_route(ParseRoutes(resp[1], a.include_steps)),
                   shortest_route |->
                       shortest_route(ParseRoutes(resp[1], a.include_steps))])

\* a bug get_distance_matrix could have: the status is not looked at
get_distance_matrix_after_request_Unchecked(resp) ==
    IF resp = Absent
    THEN Raised(NoneHasNoGet)
    ELSE Returned([durations |-> Get(resp[1].durations, <<>>),
                   distances |-> Get(resp[1].distances, <<>>),
                   sources |-> Get(resp[1].sources, <<>>),
                   destinations |-> Get(resp[1].destinations, <<>>)])

\* get_distance_matrix from the return of _make_request on
get_distance_matrix_after_request(resp) ==
    IF resp = Absent
    THEN Raised(NoneHasNoGet)
    ELSE IF ~StatusOk(resp[1])
    THEN Raised(Exc("Exception",
                    <<"OSRM table request failed: ",
                      Get(resp[1].message, "Unknown error")>>, "None"))
    ELSE Returned([durations |-> Get(resp[1].durations, <<>>),
                   distances |-> Get(resp[1].distances, <<>>),
                   sources |-> Get(resp[1].sources, <<>>),
                   destinations |-> Get(resp[1].destinations, <<>>)])

\* a bug is_healthy could have: no except clause
is_healthy_outcome_Uncaught(outcome) ==
    IF outcome.kind = "return" THEN Returned(TRUE) ELSE outcome

\* is_healthy around its get_routes call: True, or False for what it catches
is_healthy_outcome(outcome) ==
    IF outcome.kind = "return" THEN Returned(TRUE)
    ELSE IF outcome.exc.cls \in ExceptionClasses THEN Returned(FALSE)
    ELSE outcome

\* a bug the public methods could have: the exception is caught and a new
\* one raised in its place
Propagate_Rewrapped(o, e) ==
    IF o = "is_healthy" THEN is_healthy_outcome(Raised(e))
    ELSE Raised(Exc("Exception", <<"Routing failed: ">> \o e.msg, e.cls))

\* how an exception leaving _make_request leaves the public method
Propagate(o, e) ==
    IF o = "is_healthy" THEN is_healthy_outcome(Raised(e)) ELSE Raised(e)

\* the public method's outcome once _make_request has returned resp
Finish(o, a, resp) ==
    IF o = "get_routes" THEN get_routes_after_request(a, resp)
    ELSE IF o = "is_healthy" THEN is_healthy_outcome(get_routes_after_request(a, resp))
    ELSE get_distance_matrix_after_request(resp)

(***************************************************************************)
(* _make_request: the retry loop                                           *)
(***************************************************************************)
\* a bug the loop could have: its body runs before the budget is tested
RetryRange_AtLeastOnce(n) == 0 .. (IF n < 1 THEN 0 ELSE n - 1)

\* range(self.max_retries)
RetryRange(n) == 0 .. (n - 1)

\* a bug the loop could have: the counter lives on the calculator and a call
\* goes on from where the call before it stopped
FirstAttempt_Resumed == attempt

\* the first value of "for attempt in range(...)"
FirstAttempt == 0

\* a bug IsLastAttempt could have: the test is off by one
IsLastAttempt_OffByOne(att, n) == att = n

\* attempt == self.max_retries - 1
IsLastAttempt(att, n) == att = n - 1

\* a bug Backoff could have: the exponent counts attempts from 1
Backoff_FromOne(att) == 2 ^ (att + 1)

\* time.sleep(2 ** attempt)
Backoff(att) == 2 ^ att

\* Exception(f"Failed to connect to OSRM after {self.max_retries} attempts: {e}"),
\* raised while handling e
ConnectFailure(n, e) ==
    Exc("Exception",
        <<"Failed to connect to OSRM after ", ToString(n), " attempts: ", e>>, e)

\* a bug the except clause could have: it catches every exception
IsRequestException_All(e) == TRUE

\* except requests.exceptions.RequestException as e
IsRequestException(e) == e \in TransportFailures

\* a bug ReturnJson could have: the body is decoded and not returned
ReturnJson_Dropped(body) == Absent

\* return response.json(): the value _make_request hands back
ReturnJson(body) == Some(body)

NoRead == [prop |-> "none"]

GetRoutesArgs ==
    [origin : {test_origin}, destination : {test_destination},
     alternatives : {3}, include_geometry : BOOLEAN, include_steps : BOOLEAN]

IsHealthyArgs ==
    [origin |-> test_origin, destination |-> test_destination,
     alternatives |-> 1, include_geometry |-> FALSE, include_steps |-> FALSE]

MatrixArgs ==
    [coordinates : {<<test_origin, test_destination>>},
     sources : {Absent, Some(<<0>>)}, destinations : {Absent}]

Bodies(o) == IF o = "get_distance_matrix" THEN TableBodies ELSE RouteBodies

Init ==
    /\ max_retries \in (-1) .. MaxRetries
    /\ pc = "idle"
    /\ op = "none"
    /\ args = Absent
    /\ attempt = 0
    /\ attempts = 0
    /\ sleeps = <<>>
    /\ last_failure = "None"
    /\ served = Absent
    /\ response = Absent
    /\ result = NoResult
    /\ read = NoRead

\* a public method is called and enters _make_request; an empty range ends
\* the loop at once and _make_request returns None
Call(o, a) ==
    /\ pc = "idle"
    /\ op' = o
    /\ args' = a
    /\ attempt' = FirstAttempt
    /\ attempts' = 0
    /\ sleeps' = <<>>
    /\ last_failure' = "None"
    /\ served' = Absent
    /\ response' = Absent
    /\ read' = NoRead
    /\ IF FirstAttempt \in RetryRange(max_retries)
       THEN pc' = "requesting" /\ result' = NoResult
       ELSE pc' = "idle" /\ result' = Finish(o, a, Absent)
    /\ UNCHANGED max_retries

get_routes == \E a \in GetRoutesArgs : Call("get_routes", a)

get_distance_matrix == \E a \in MatrixArgs : Call("get_distance_matrix", a)

is_healthy == Call("is_healthy", IsHealthyArgs)

\* session.get and raise_for_status succeed, response.json() is body:
\* _make_request returns it and the method runs to its end
AttemptSucceeds ==
    /\ pc = "requesting"
    /\ \E body \in Bodies(op) :
        /\ served' = Some(body)
        /\ response' = ReturnJson(body)
        /\ result' = Finish(op, args, ReturnJson(body))
    /\ attempts' = attempts + 1
    /\ last_failure' = "None"
    /\ pc' = "idle"
    /\ UNCHANGED <<max_retries, op, args, attempt, sleeps, read>>

\* the attempt raises a RequestException: the except clause
AttemptFailsTransport ==
    /\ pc = "requesting"
    /\ \E e \in Failures :
        /\ IsRequestException(e)
        /\ last_failure' = e
        /\ IF IsLastAttempt(attempt, max_retries)
           THEN /\ result' = Propagate(op, ConnectFailure(max_retries, e))
                /\ pc' = "idle"
                /\ UNCHANGED <<attempt, sleeps>>
           ELSE /\ sleeps' = Append(sleeps, Backoff(attempt))
                /\ IF attempt + 1 \in RetryRange(max_retries)
                   THEN /\ attempt' = attempt + 1
                        /\ pc' = "requesting"
                        /\ result' = NoResult
                   ELSE /\ attempt' = attempt
                        /\ pc' = "idle"
                        /\ result' = Finish(op, args, Absent)
    /\ attempts' = attempts + 1
    /\ UNCHANGED <<max_retries, op, args, served, response, read>>

\* the attempt raises something else: no clause handles it
AttemptFailsOther ==
    /\ pc = "requesting"
    /\ \E e \in Failures :
        /\ ~IsRequestException(e)
        /\ last_failure' = e
        /\ result' = Propagate(op, Exc(e, <<e>>, "None"))
    /\ attempts' = attempts + 1
    /\ pc' = "idle"
    /\ UNCHANGED <<max_retries, op, args, attempt, sleeps, served, response,
                   read>>

\* the caller reads result.best_truck_route
ReadBestTruckRoute ==
    /\ pc = "idle"
    /\ op = "get_routes"
    /\ result.kind = "return"
    /\ read' = [prop |-> "best_truck_route", value |-> best_truck_route(result.value)]
    /\ UNCHANGED <<max_retries, pc, op, args, attempt, attempts, sleeps,
                   last_failure, served, response, result>>

\* the caller reads result.most_efficient_route
ReadMostEfficientRoute ==
    /\ pc = "idle"
    /\ op = "get_routes"
    /\ result.kind = "return"
    /\ read' = [prop |-> "most_efficient_route",
                value |-> most_efficient_route(result.value)]
    /\ UNCHANGED <<max_retries, pc, op, args, attempt, attempts, sleeps,
                   last_failure, served, response, result>>

\* the caller reads the three ranges of the result
ReadRanges ==
    /\ pc = "idle"
    /\ op = "get_routes"
    /\ result.kind = "return"
    /\ read' = [prop |-> "ranges",
                distance_range |-> distance_range(result.value),
                duration_range |-> duration_range(result.value),
                total_fuel_cost_range |-> total_fuel_cost_range(result.value)]
    /\ UNCHANGED <<max_retries, pc, op, args, attempt, attempts, sleeps,
                   last_failure, served, response, result>>

\* the caller reads truck_suitability_score of a route of the result
ReadScore ==
    /\ pc = "idle"
    /\ op = "get_routes"
    /\ result.kind = "return"
    /\ \E i \in DOMAIN result.value.routes :
        read' = [prop |-> "truck_suitability_score", index |-> i,
                 value |-> truck_suitability_score(result.value.routes[i])]
    /\ UNCHANGED <<max_retries, pc, op, args, attempt, attempts, sleeps,
                   last_failure, served, response, result>>

Next ==
    \/ get_routes
    \/ get_distance_matrix
    \/ is_healthy
    \/ AttemptSucceeds
    \/ AttemptFailsTransport
    \/ AttemptFailsOther
    \/ ReadBestTruckRoute

Spec == Init /\ [][Next]_vars

(***************************************************************************)
(* truck_suitability_score over every duration up to MaxDuration: a caller *)
(* holds the result of a get_routes call that the service answered, on the *)
(* first attempt, with one route of that duration, and reads its score.    *)
(***************************************************************************)
ScoreArgs ==
    [origin |-> test_origin, destination |-> test_destination,
     alternatives |-> 3, include_geometry |-> FALSE, include_steps |-> FALSE]

ScoreBody(d) ==
    [code |-> Some("Ok"), message |-> Absent,
     routes |-> Some(<<[distance |-> Some(1000), duration |-> Some(d),
                        weight |-> Absent, weight_name |-> Absent,
                        geometry |-> Absent, legs |-> Absent]>>)]

InitScore ==
    /\ max_retries \in 1 .. MaxRetries
    /\ pc = "idle"
    /\ op = "get_routes"
    /\ args = ScoreArgs
    /\ attempt = 0
    /\ attempts = 1
    /\ sleeps = <<>>
    /\ last_failure = "None"
    /\ \E d \in 0 .. MaxDuration :
        /\ served = Some(ScoreBody(d))
        /\ response = ReturnJson(ScoreBody(d))
        /\ result = get_routes_after_request(ScoreArgs, ReturnJson(ScoreBody(d)))
    /\ read = NoRead

NextScore == ReadScore

SpecScore == InitScore /\ [][NextScore]_vars

(***************************************************************************)
(* The float properties of a RouteResult over route lists whose distances  *)
(* lie close together: a caller holds the result of a get_routes call that *)
(* the service answered on the first attempt, and reads                    *)
(* most_efficient_route or the three ranges.                               *)
(***************************************************************************)
CloseDistances == 996 .. 1002

CloseEntries ==
    [distance : {Absent} \cup {Some(d) : d \in CloseDistances},
     duration : {Some(100), Some(300)},
     weight : {Absent}, weight_name : {Absent}, geometry : {Absent},
     legs : {Absent}]

CloseBody(l) == [code |-> Some("Ok"), message |-> Absent, routes |-> Some(l)]

InitDerived ==
    /\ max_retries = MaxRetries
    /\ pc = "idle"
    /\ op = "get_routes"
    /\ args = ScoreArgs
    /\ attempt = 0
    /\ attempts = 1
    /\ sleeps = <<>>
    /\ last_failure = "None"
    /\ \E l \in SeqsUpTo(CloseEntries, MaxRoutes) \ {<<>>} :
        /\ served = Some(CloseBody(l))
        /\ response = ReturnJson(CloseBody(l))
        /\ result = get_routes_after_request(ScoreArgs, ReturnJson(CloseBody(l)))
    /\ read = NoRead

NextDerived ==
    \/ ReadMostEfficientRoute
    \/ ReadRanges

SpecDerived == InitDerived /\ [][NextDerived]_vars

(***************************************************************************)
(* One calculator called again and again while the service is down: every  *)
(* attempt of every call raises a RequestException.                        *)
(***************************************************************************)
NextFailing ==
    \/ get_routes
    \/ get_distance_matrix
    \/ is_healthy
    \/ AttemptFailsTransport

SpecFailing == Init /\ [][NextFailing]_vars

(***************************************************************************)
(* Properties                                                              *)
(***************************************************************************)
\* a call of get_routes or get_distance_matrix has ended
CallEnded == pc = "idle" /\ op \in {"get_routes", "get_distance_matrix"}

\* the call that ended made attempts and its last one failed at transport
\* level; a call ends at its first attempt that does not, so they all did
AllAttemptsFailed == CallEnded /\ attempts > 0 /\ last_failure \in TransportFailures

\* C1: with max_retries = n >= 1 and every attempt failing at transport
\* level, a call makes exactly n attempts, never more, and then raises the
\* connection failure that names n attempts and wraps the last failure.
C1_ExhaustedAfterMaxRetries ==
    /\ attempts <= (IF max_retries > 0 THEN max_retries ELSE 0)
    /\ (max_retries >= 1 /\ AllAttemptsFailed) =>
         /\ attempts = max_retries
         /\ result = Raised([cls |-> "Exception",
                             msg |-> <<"Failed to connect to OSRM after ",
                                       ToString(max_retries), " attempts: ",
                                       last_failure>>,
                             context |-> last_failure])

C1_Witness ==
    /\ max_retries = 3
    /\ AllAttemptsFailed
    /\ op = "get_routes"
    /\ attempts = 3
    /\ result.kind = "raise"
    /\ result.exc.context = "HTTPError"

\* C2: the k-th wait of a call (k from 0) is 2^k; a wait happens only between
\* two attempts, so a call in its loop has waited once per attempt made, and a
\* call that exhausted max_retries = n attempts has waited n - 1 times.
C2_BackoffDoubles ==
    /\ \A i \in DOMAIN sleeps : sleeps[i] = 2 ^ (i - 1)
    /\ pc = "requesting" => Len(sleeps) = attempts
    /\ (pc = "idle" /\ attempts > 0) => Len(sleeps) = attempts - 1
    /\ (max_retries >= 1 /\ AllAttemptsFailed) => Len(sleeps) = max_retries - 1

C2_Witness ==
    /\ max_retries = 3
    /\ AllAttemptsFailed
    /\ attempts = 3
    /\ sleeps = <<1, 2>>

\* C3: when attempt k is the first to succeed, _make_request returns the body
\* the service sent, attempt k is the call's last attempt, and the call's
\* outcome carries none of the k transport failures before it.
C3_FirstSuccessReturnsBody ==
    served # Absent =>
        /\ response = served
        /\ pc = "idle"
        /\ attempts = attempt + 1
        /\ Len(sleeps) = attempt
        /\ result.kind # "none"
        /\ result.kind = "raise" => result.exc.context = "None"

C3_Witness ==
    /\ served # Absent
    /\ response = served
    /\ op = "get_routes"
    /\ attempt = 2
    /\ attempts = 3
    /\ result.kind = "return"

\* get_routes has ended and _make_request had returned it a body
RoutesAnswered == pc = "idle" /\ op = "get_routes" /\ response # Absent

\* get_routes has returned a RouteResult
RouteResultReturned == pc = "idle" /\ op = "get_routes" /\ result.kind = "return"

\* the error get_routes raises for an empty result
NoRouteFoundError ==
    [kind |-> "raise",
     exc |-> [cls |-> "Exception",
              msg |-> <<"No routes found between the specified points">>,
              context |-> "None"]]

\* C4: a response with status "Ok" and an empty or missing route list makes
\* get_routes raise the no-routes error, and no response with another status
\* makes it raise that error: callers can tell the two apart.
C4_EmptyRoutesIsNoRouteFound ==
    RoutesAnswered =>
        /\ (response[1].code = Some("Ok") /\ Get(response[1].routes, <<>>) = <<>>)
              => result = NoRouteFoundError
        /\ response[1].code # Some("Ok") => result # NoRouteFoundError

C4_Witness ==
    /\ RoutesAnswered
    /\ response[1].code = Some("Ok")
    /\ response[1].routes = Some(<<>>)
    /\ result = NoRouteFoundError

\* C5: a response whose status is not "Ok" makes get_routes raise the routing
\* failure with exactly the service's message, whatever its route list holds,
\* and return no RouteResult.
C5_BadStatusIsRoutingFailure ==
    (RoutesAnswered /\ response[1].code # Some("Ok")) =>
        /\ result.kind = "raise"
        /\ result.exc.cls = "Exception"
        /\ Head(result.exc.msg) = "OSRM routing failed: "
        /\ response[1].message # Absent =>
              result.exc.msg = <<"OSRM routing failed: ", response[1].message[1]>>

C5_Witness ==
    /\ RoutesAnswered
    /\ response[1].code = Some("InvalidQuery")
    /\ response[1].message = Some("Query string malformed")
    /\ Len(Get(response[1].routes, <<>>)) = 1
    /\ result.kind = "raise"
    /\ result.exc.msg = <<"OSRM routing failed: ", "Query string malformed">>

\* C6: the fastest_route of a returned RouteResult is a route of routes whose
\* duration no route undercuts, and every route before it is strictly slower.
C6_FastestIsFirstMinimumDuration ==
    RouteResultReturned =>
        LET r == result.value
        IN  \E i \in DOMAIN r.routes :
              /\ r.routes[i] = r.fastest_route
              /\ \A j \in DOMAIN r.routes :
                    r.fastest_route.duration_seconds <= r.routes[j].duration_seconds
              /\ \A j \in 1 .. (i - 1) :
                    r.fastest_route.duration_seconds < r.routes[j].duration_seconds

C6_Witness ==
    /\ RouteResultReturned
    /\ Len(result.value.routes) = 2
    /\ result.value.routes[1].duration_seconds = 299
    /\ result.value.routes[2].duration_seconds = 299
    /\ result.value.routes[1].distance_meters = 2000
    /\ result.value.routes[2].distance_meters = 1000
    /\ result.value.fastest_route.id = 1

\* C7: with one route shortest_route is unset; with two or more it is a route
\* of routes whose distance no route undercuts, and every route before it is
\* strictly longer.
C7_ShortestIsFirstMinimumDistance ==
    RouteResultReturned =>
        LET r == result.value
        IN  /\ Len(r.routes) = 1 => r.shortest_route = Absent
            /\ Len(r.routes) >= 2 =>
                 /\ r.shortest_route # Absent
                 /\ \E i \in DOMAIN r.routes :
                      /\ r.routes[i] = r.shortest_route[1]
                      /\ \A j \in DOMAIN r.routes :
                            r.routes[i].distance_meters <= r.routes[j].distance_meters
                      /\ \A j \in 1 .. (i - 1) :
                            r.routes[i].distance_meters < r.routes[j].distance_meters

C7_Witness ==
    /\ RouteResultReturned
    /\ Len(result.value.routes) = 2
    /\ result.value.routes[1].distance_meters = 1000
    /\ result.value.routes[2].distance_meters = 1000
    /\ result.value.routes[1].duration_seconds = 300
    /\ result.value.routes[2].duration_seconds = 100
    /\ result.value.shortest_route = Some(result.value.routes[1])

\* C8: a returned RouteResult has at least one route, its fastest_route is
\* one of its routes, and so is its shortest_route when set.
C8_SelectedRoutesAreElements ==
    RouteResultReturned =>
        LET r == result.value
        IN  /\ Len(r.routes) >= 1
            /\ \E i \in DOMAIN r.routes : r.routes[i] = r.fastest_route
            /\ r.shortest_route # Absent =>
                 \E i \in DOMAIN r.routes : r.routes[i] = r.shortest_route[1]

C8_Witness ==
    /\ RouteResultReturned
    /\ Len(result.value.routes) = 2
    /\ result.value.fastest_route = result.value.routes[2]
    /\ result.value.shortest_route = Some(result.value.routes[1])

\* the documented score of a duration, in tenths
StepScore(d) ==
    CASE d < 300 -> 9
      [] d >= 300 /\ d < 900 -> 8
      [] d >= 900 /\ d < 1800 -> 7
      [] d >= 1800 -> 6

\* C9: the score read from a route is the step function of its duration
\* (0.9 below 300, 0.8 below 900, 0.7 below 1800, else 0.6; so 299 scores
\* 0.9, 300 scores 0.8, 1800 scores 0.6) and no shorter duration scores less.
C9_ScoreIsStepFunction ==
    read.prop = "truck_suitability_score" =>
        LET d == result.value.routes[read.index].duration_seconds
        IN  /\ read.value = StepScore(d)
            /\ d = 299 => read.value = 9
            /\ d = 300 => read.value = 8
            /\ d = 1800 => read.value = 6
            /\ \A e \in 0 .. d :
                  truck_suitability_score([duration_seconds |-> e]) >= read.value

C9_Witness ==
    /\ read.prop = "truck_suitability_score"
    /\ result.value.routes[read.index].duration_seconds = 1800
    /\ read.value = 6

\* C10: best_truck_route is a route of routes whose score no route exceeds,
\* and every route before it scores strictly less: of the routes with the
\* highest score it is the first, whatever their durations.
C10_BestTruckIsFirstMaximumScore ==
    read.prop = "best_truck_route" =>
        LET r == result.value
        IN  \E i \in DOMAIN r.routes :
              /\ r.routes[i] = read.value
              /\ \A j \in DOMAIN r.routes :
                    StepScore(r.routes[j].duration_seconds)
                        <= StepScore(read.value.duration_seconds)
              /\ \A j \in 1 .. (i - 1) :
                    StepScore(r.routes[j].duration_seconds)
                        < StepScore(read.value.duration_seconds)

C10_Witness ==
    /\ read.prop = "best_truck_route"
    /\ Len(result.value.routes) = 2
    /\ result.value.routes[1].duration_seconds = 299
    /\ result.value.routes[2].duration_seconds = 100
    /\ read.value = result.value.routes[1]

\* C11 as claimed: most_efficient_route is the first route of minimum
\* distance, and it is shortest_route whenever that is set.
C11_MostEfficientIsShortest ==
    read.prop = "most_efficient_route" =>
        LET r == result.value
        IN  /\ \E i \in DOMAIN r.routes :
                 /\ r.routes[i] = read.value
                 /\ \A j \in DOMAIN r.routes :
                       read.value.distance_meters <= r.routes[j].distance_meters
                 /\ \A j \in 1 .. (i - 1) :
                       read.value.distance_meters < r.routes[j].distance_meters
            /\ r.shortest_route # Absent => r.shortest_route = Some(read.value)

\* C11, amended: most_efficient_route is the first route of minimum estimated
\* fuel cost; a route of smaller distance has the same cost, so when
\* shortest_route is set the two routes cost the same.
C11_MostEfficientIsFirstMinimumCost ==
    read.prop = "most_efficient_route" =>
        LET r == result.value
            cost == estimated_fuel_cost(read.value)
        IN  /\ \E i \in DOMAIN r.routes :
                 /\ r.routes[i] = read.value
                 /\ \A j \in DOMAIN r.routes :
                       ~FloatLess(estimated_fuel_cost(r.routes[j]), cost)
                 /\ \A j \in 1 .. (i - 1) :
                       FloatLess(cost, estimated_fuel_cost(r.routes[j]))
            /\ \A j \in DOMAIN r.routes :
                  r.routes[j].distance_meters < read.value.distance_meters
                      => estimated_fuel_cost(r.routes[j]) = cost
            /\ r.shortest_route # Absent =>
                  estimated_fuel_cost(r.shortest_route[1]) = cost

C11_Witness ==
    /\ read.prop = "most_efficient_route"
    /\ Len(result.value.routes) = 2
    /\ result.value.routes[1].distance_meters = 1000
    /\ result.value.routes[2].distance_meters = 999
    /\ read.value = result.value.routes[1]
    /\ result.value.shortest_route = Some(result.value.routes[2])

\* range is <<the least, the greatest>> of the values, which are not empty
IsMinMaxOf(range, values) ==
    /\ \E i \in DOMAIN values : values[i] = range[1]
    /\ \E i \in DOMAIN values : values[i] = range[2]
    /\ \A i \in DOMAIN values :
          ~FloatLess(values[i], range[1]) /\ ~FloatLess(range[2], values[i])
    /\ ~FloatLess(range[2], range[1])
    /\ Len(values) = 1 => range[1] = range[2]

\* C12: each of distance_range, duration_range and total_fuel_cost_range is
\* the pair (minimum, maximum) of its metric over the routes: the first is
\* not greater than the second, and they are equal for a single route.
C12_RangesAreMinAndMax ==
    read.prop = "ranges" =>
        LET routes == result.value.routes
        IN  /\ IsMinMaxOf(read.distance_range,
                          [i \in DOMAIN routes |-> distance_km(routes[i])])
            /\ IsMinMaxOf(read.duration_range,
                          [i \in DOMAIN routes |-> duration_minutes(routes[i])])
            /\ IsMinMaxOf(read.total_fuel_cost_range,
                          [i \in DOMAIN routes |-> estimated_fuel_cost(routes[i])])

C12_Witness ==
    /\ read.prop = "ranges"
    /\ Len(result.value.routes) = 2
    /\ result.value.routes[1].distance_meters = 1000
    /\ result.value.routes[2].distance_meters = 0
    /\ result.value.routes[1].duration_seconds = 100
    /\ result.value.routes[2].duration_seconds = 300
    /\ FloatLess(read.distance_range[1], read.distance_range[2])
    /\ FloatLess(read.duration_range[1], read.duration_range[2])
    /\ FloatLess(read.total_fuel_cost_range[1], read.total_fuel_cost_range[2])

\* C13 as claimed: without include_geometry every route of the result has no
\* geometry, whatever the payload contains.  get_routes copies
\* route_data.get('geometry') whatever include_geometry is, so a payload that
\* carries a geometry refutes it.
C13_GeometryAbsentUnlessRequested ==
    (RouteResultReturned /\ ~args.include_geometry) =>
        \A i \in DOMAIN result.value.routes :
            result.value.routes[i].geometry = Absent

\* the entries of the payload that get_routes parsed
ServedEntries == Get(served[1].routes, <<>>)

\* C14: without include_steps every route of the result has no steps,
\* whatever the payload contains; with include_steps its steps are exactly
\* those of the first leg of its entry (none if that leg, or the entry, has
\* none), never those of a later leg.
C14_StepsAreFirstLegsWhenRequested ==
    RouteResultReturned =>
        /\ Len(result.value.routes) = Len(ServedEntries)
        /\ \A i \in DOMAIN result.value.routes :
              LET steps == result.value.routes[i].steps
                  legs == ServedEntries[i].legs
              IN  /\ ~args.include_steps => steps = Absent
                  /\ (args.include_steps /\ legs = Absent) => steps = Some(<<>>)
                  /\ (args.include_steps /\ legs # Absent) =>
                        /\ legs[1] # <<>>
                        /\ legs[1][1].steps = Absent => steps = Some(<<>>)
                        /\ legs[1][1].steps # Absent => steps = legs[1][1].steps

C14_Witness ==
    /\ RouteResultReturned
    /\ args.include_steps
    /\ Len(result.value.routes) = 2
    /\ ServedEntries[2].legs =
          Some(<<Leg(Some(<<"depart">>)), Leg(Some(<<"arrive">>))>>)
    /\ result.value.routes[2].steps = Some(<<"depart">>)
    /\ ServedEntries[1].legs = Some(<<Leg(Absent)>>)
    /\ result.value.routes[1].steps = Some(<<>>)

\* C15: routes holds one RouteOption per entry of the payload, in the order
\* of the payload: the i-th route is the i-th object built and carries the
\* i-th entry's values.  The sort that finds shortest_route does not reorder
\* it.
C15_RoutesKeepServiceOrder ==
    RouteResultReturned =>
        /\ DOMAIN result.value.routes = DOMAIN ServedEntries
        /\ \A i \in DOMAIN ServedEntries :
              /\ result.value.routes[i].id = i
              /\ result.value.routes[i].distance_meters =
                    Get(ServedEntries[i].distance, 0)
              /\ result.value.routes[i].duration_seconds =
                    Get(ServedEntries[i].duration, 0)
              /\ result.value.routes[i].weight =
                    Get(ServedEntries[i].weight, Get(ServedEntries[i].duration, 0))
              /\ result.value.routes[i].weight_name =
                    Get(ServedEntries[i].weight_name, "routability")

C15_Witness ==
    /\ RouteResultReturned
    /\ Len(ServedEntries) = 2
    /\ ServedEntries[1].distance = Some(2000)
    /\ ServedEntries[2].distance = Some(1000)
    /\ result.value.shortest_route = Some(result.value.routes[2])
    /\ result.value.routes[1].distance_meters = 2000

\* get_distance_matrix has ended
MatrixCallEnded == pc = "idle" /\ op = "get_distance_matrix"

\* the error get_distance_matrix raises for a status that is not "Ok"
IsTableRequestFailure(outcome) ==
    /\ outcome.kind = "raise"
    /\ outcome.exc.cls = "Exception"
    /\ outcome.exc.msg[1] = "OSRM table request failed: "

\* C16: get_distance_matrix raises "OSRM table request failed: <message>"
\* exactly when the service answered with a status that is not "Ok"; when it
\* answered "Ok" the call returns durations, distances, sources and
\* destinations, each the service's value, or the empty list if omitted.
C16_MatrixFailsExactlyOnBadStatus ==
    MatrixCallEnded =>
        /\ IsTableRequestFailure(result) <=>
              (served # Absent /\ served[1].code # Some("Ok"))
        /\ (served # Absent /\ served[1].code # Some("Ok")) =>
              result = Raised(Exc("Exception",
                                  <<"OSRM table request failed: ",
                                    IF served[1].message = Absent
                                    THEN "Unknown error"
                                    ELSE served[1].message[1]>>, "None"))
        /\ (served # Absent /\ served[1].code = Some("Ok")) =>
              /\ result.kind = "return"
              /\ DOMAIN result.value =
                    {"durations", "distances", "sources", "destinations"}
              /\ \A f \in DOMAIN result.value :
                    result.value[f] =
                        IF served[1][f] = Absent THEN <<>> ELSE served[1][f][1]

C16_Witness ==
    /\ MatrixCallEnded
    /\ served # Absent
    /\ served[1].code = Some("Ok")
    /\ served[1].distances = Absent
    /\ served[1].durations # Absent
    /\ result = Returned([durations |-> <<<<0, 7>>, <<7, 0>>>>,
                          distances |-> <<>>,
                          sources |-> Get(served[1].sources, <<>>),
                          destinations |-> Get(served[1].destinations, <<>>)])

\* is_healthy has ended
HealthCheckEnded == pc = "idle" /\ op = "is_healthy"

\* the service answered the route query with status "Ok" and some route
AnsweredWithRoutes ==
    /\ served # Absent
    /\ served[1].code = Some("Ok")
    /\ Get(served[1].routes, <<>>) # <<>>

\* C17: is_healthy never raises.  It makes one get_routes call, for a single
\* alternative between the two fixed points, and returns True exactly when
\* that call returns a RouteResult, False for every failure of it.
C17_HealthCheckIsBoolean ==
    HealthCheckEnded =>
        /\ args = [origin |-> test_origin, destination |-> test_destination,
                   alternatives |-> 1, include_geometry |-> FALSE,
                   include_steps |-> FALSE]
        /\ (attempts = 0 \/ attempts <= max_retries)
        /\ result = Returned(AnsweredWithRoutes)

C17_Witness ==
    /\ HealthCheckEnded
    /\ attempts = max_retries
    /\ attempts > 1
    /\ last_failure \in TransportFailures
    /\ result = Returned(FALSE)

\* the latest attempt raised an error that is not a RequestException
AttemptFailedOtherwise == last_failure \in OtherFailures

\* C20: only a RequestException is retried.  Once an attempt has raised an
\* error of another class the call is over: no attempt follows it and no
\* sleep (the sleeps are those of the failed attempts before it), and the
\* caller of get_routes or get_distance_matrix gets that very error, not
\* wrapped in a connection failure, though attempts remain.
C20_OnlyTransportFailuresRetried ==
    AttemptFailedOtherwise =>
        /\ pc = "idle"
        /\ attempts = attempt + 1
        /\ Len(sleeps) = attempts - 1
        /\ served = Absent
        /\ CallEnded =>
              result = [kind |-> "raise",
                        exc |-> [cls |-> last_failure, msg |-> <<last_failure>>,
                                 context |-> "None"]]

C20_Witness ==
    /\ AttemptFailedOtherwise
    /\ CallEnded
    /\ attempts = 2
    /\ attempts < max_retries
    /\ sleeps = <<1>>
    /\ result.kind = "raise"
    /\ result.exc.cls = "ValueError"

\* the payload holds an entry the parse loop fails on
SomeEntryUnparsable ==
    /\ served # Absent
    /\ args.include_steps
    /\ \E i \in DOMAIN ServedEntries : ServedEntries[i].legs = Some(<<>>)

\* C18: get_routes and get_distance_matrix handle no failure.  The error
\* _make_request raises after its last transport failure is the error the
\* caller gets, as raised.  A call returns a whole result or raises: a
\* returned RouteResult has a route for every entry of the payload and its
\* selected routes, a returned matrix has its four fields, and one entry the
\* parse loop fails on makes the whole get_routes call raise.
C18_FailuresPropagateWhole ==
    CallEnded =>
        /\ result.kind \in {"return", "raise"}
        /\ last_failure \in TransportFailures =>
              /\ result.kind = "raise"
              /\ result.exc.cls = "Exception"
              /\ result.exc.context = last_failure
              /\ result.exc.msg = <<"Failed to connect to OSRM after ",
                                    ToString(max_retries), " attempts: ",
                                    last_failure>>
        /\ (op = "get_routes" /\ SomeEntryUnparsable) => result.kind = "raise"
        /\ (op = "get_routes" /\ result.kind = "return") =>
              /\ Len(result.value.routes) >= 1
              /\ Len(result.value.routes) = Len(ServedEntries)
              /\ \E i \in DOMAIN result.value.routes :
                    result.value.fastest_route = result.value.routes[i]
              /\ Len(result.value.routes) > 1 => result.value.shortest_route # Absent
        /\ (op = "get_distance_matrix" /\ result.kind = "return") =>
              DOMAIN result.value =
                  {"durations", "distances", "sources", "destinations"}

C18_Witness ==
    /\ CallEnded
    /\ op = "get_routes"
    /\ SomeEntryUnparsable
    /\ served[1].code = Some("Ok")
    /\ Len(ServedEntries) = 2
    /\ ServedEntries[1].legs = Some(<<Leg(Absent)>>)
    /\ ServedEntries[2].legs = Some(<<>>)
    /\ result.kind = "raise"
    /\ result.exc.cls = "IndexError"

\* the sleeps of a call whose first n attempts failed and were retried
BackoffRun(n) == [k \in 1 .. n |-> 2 ^ (k - 1)]

\* the calculator's latest call ran out of attempts; its next step is a call
PreviousCallExhausted ==
    /\ pc = "idle"
    /\ op # "none"
    /\ attempts = max_retries
    /\ last_failure \in TransportFailures

\* what a call that used its whole budget leaves behind
BudgetUsed ==
    /\ attempts = max_retries
    /\ attempt = max_retries - 1
    /\ sleeps = BackoffRun(max_retries - 1)
    /\ last_failure \in TransportFailures
    /\ result.kind = IF op = "is_healthy" THEN "return" ELSE "raise"

\* C19: the retry budget is per call.  While the service fails at transport
\* level, a call that follows a call that ran out of attempts starts at
\* attempt 0 with nothing attempted and nothing slept; every call in
\* progress has made as many attempts as its loop counter says, with sleeps
\* 1, 2, 4, ... from the start; and every call with max_retries >= 1 ends
\* only after max_retries attempts.
C19_RetryBudgetIsPerCall ==
    /\ [](pc = "requesting" =>
             /\ attempt \in RetryRange(max_retries)
             /\ attempts = attempt
             /\ sleeps = BackoffRun(attempt))
    /\ []((pc = "idle" /\ op # "none" /\ max_retries >= 1) => BudgetUsed)
    /\ [][PreviousCallExhausted =>
             /\ pc' = "requesting"
             /\ attempt' = 0
             /\ attempts' = 0
             /\ sleeps' = <<>>
             /\ last_failure' = "None"]_vars

C19_Witness ==
    /\ pc = "idle"
    /\ op = "get_distance_matrix"
    /\ max_retries = MaxRetries
    /\ BudgetUsed
    /\ sleeps = <<1, 2>>

\* e is one of the errors the client raises itself: the connection failure,
\* the two failures of the service, or the empty result
IsClassifiedError(e) ==
    /\ e.cls = "Exception"
    /\ e.msg[1] \in {"Failed to connect to OSRM after ",
                     "OSRM routing failed: ",
                     "OSRM table request failed: ",
                     "No routes found between the specified points"}

\* C21: with max_retries <= 0 the loop of _make_request has no iteration: no
\* request is sent, nothing is slept or raised, and it returns None.
\* get_routes and get_distance_matrix then raise the AttributeError of
\* None.get, which is none of the client's own errors, and is_healthy returns
\* False.
C21_NoBudgetSendsNothing ==
    max_retries <= 0 =>
        /\ pc = "idle"
        /\ attempts = 0
        /\ sleeps = <<>>
        /\ last_failure = "None"
        /\ served = Absent
        /\ response = Absent
        /\ op \in {"get_routes", "get_distance_matrix"} =>
              /\ result = [kind |-> "raise",
                           exc |-> [cls |-> "AttributeError",
                                    msg |-> <<"'NoneType' object has no attribute 'get'">>,
                                    context |-> "None"]]
              /\ ~IsClassifiedError(result.exc)
        /\ op = "is_healthy" => result = Returned(FALSE)

C21_Witness ==
    /\ max_retries = 0
    /\ pc = "idle"
    /\ op = "get_distance_matrix"
    /\ attempts = 0
    /\ result.kind = "raise"
    /\ result.exc.cls = "AttributeError"

\* get_routes was asked for steps and the service answered "Ok"
StepsAnswered ==
    /\ pc = "idle"
    /\ op = "get_routes"
    /\ args.include_steps
    /\ served # Absent
    /\ served[1].code = Some("Ok")

\* C22: when steps are requested and an entry of an "Ok" response has a legs
\* list that is empty, get_routes raises the IndexError of [][0], which is
\* none of the client's own errors, and returns nothing, whatever the other
\* entries are.  An entry without legs gives a route whose steps are the
\* empty list.
C22_EmptyLegsFailTheQuery ==
    StepsAnswered =>
        /\ (\E i \in DOMAIN ServedEntries : ServedEntries[i].legs = Some(<<>>)) =>
              /\ result = [kind |-> "raise",
                           exc |-> [cls |-> "IndexError",
                                    msg |-> <<"list index out of range">>,
                                    context |-> "None"]]
              /\ ~IsClassifiedError(result.exc)
        /\ ((\A i \in DOMAIN ServedEntries : ServedEntries[i].legs # Some(<<>>))
               /\ ServedEntries # <<>>) =>
              /\ result.kind = "return"
              /\ \A i \in DOMAIN ServedEntries :
                    ServedEntries[i].legs = Absent =>
                        result.value.routes[i].steps = Some(<<>>)

C22_Witness ==
    /\ StepsAnswered
    /\ Len(ServedEntries) = 2
    /\ ServedEntries[1].legs =
          Some(<<Leg(Some(<<"depart">>)), Leg(Some(<<"arrive">>))>>)
    /\ ServedEntries[2].legs = Some(<<>>)
    /\ result.kind = "raise"
    /\ result.exc.cls = "IndexError"

=============================================================================
